---- MODULE Spec2Model ----
(***************************************************************************)
(* Connection registry and session router of backend/app/websocket.py.     *)
(*                                                                         *)
(* One asyncio task runs websocket_endpoint per connection.  Tasks are     *)
(* interleaved only at their awaits, so every action below is the code of  *)
(* one handler between two consecutive suspension points.                  *)
(***************************************************************************)
EXTENDS Integers, Sequences, FiniteSets, TLC

(* ------------------------------ bounds -------------------------------- *)
\* frames written to one connection after which it is sent no further frame
MaxSent == 2
\* documents in the transcript store after which no further frame arrives
MaxDocs == 1
\* largest value of int(time.time()) the clock reaches
MaxTime == 1

\* WebSocket objects accepted by the server
Conns == {1, 2}
\* user identities that verified credentials decode to
Users == {"u1", "u2"}
\* chat ids a client names on its own
ClientChats == {"c1", "c2"}
\* values of str(uuid.uuid4())[:8]
UuidParts == {"a", "b"}

\* Python's None, for every optional field and local
None == "<None>"

(* --------------------------- Python helpers --------------------------- *)
\* truthiness of an optional string: None and "" are falsy
Truthy(x) == x # None /\ x # ""

\* d[k] = v on a dict
DictSet(d, k, v) == [x \in (DOMAIN d) \cup {k} |-> IF x = k THEN v ELSE d[x]]

\* del d[k]
DictDel(d, k) == [x \in (DOMAIN d) \ {k} |-> d[x]]

\* d.get(k, default)
DictGet(d, k, default) == IF k \in DOMAIN d THEN d[k] ELSE default

EmptyDict == << >>

(* ------------------------- external collaborators --------------------- *)
\* credentials a client may present in jwt_token
ValidTokens == {"jwt_u1", "jwt_u2"}
Tokens == ValidTokens \cup {"forged_u1"}

\* the user a token names in its claims, verified or not
TokenSubject(token) ==
    CASE token = "jwt_u1" -> "u1"
      [] token = "jwt_u2" -> "u2"
      [] token = "forged_u1" -> "u1"
      [] OTHER -> None

\* app.auth.decode_jwt_token: the claims of a verified token, or a raise
decode_jwt_token(token) ==
    IF token \in ValidTokens
    THEN [raised |-> FALSE, user_id |-> TokenSubject(token)]
    ELSE [raised |-> TRUE, user_id |-> None]

\* get_user_from_token reading the claims of the token without verifying it
get_user_from_token_unverified(token) ==
    [raised |-> FALSE, user_id |-> TokenSubject(token)]

\* get_user_from_token: returns decode_jwt_token(token) unchanged
get_user_from_token(token) == decode_jwt_token(token)

(* ------------------------------ identifiers --------------------------- *)
\* str(int(time.time())) for the clock values of the model
TimeStr == <<"0", "1", "2", "3">>

\* generate_unique_chat_id: f"chat_{user_id}_{timestamp}_{unique_part}"
generate_unique_chat_id(user, timestamp, unique_part) ==
    "chat_" \o user \o "_" \o TimeStr[timestamp + 1] \o "_" \o unique_part

\* str(id(websocket)) for the objects of the model; two objects alive at
\* the same time never share an id
IdStr == <<"id1", "id2", "id3", "id4">>

\* get_websocket_id: f"{id(websocket)}"
get_websocket_id(websocket) == IdStr[websocket]

(* ------------------------------- state -------------------------------- *)
VARIABLES
    active_connections,   \* {user_id: {chat_id: websocket}}
    connection_metadata,  \* {websocket_id: {"user_id", "chat_id"}}
    chats_collection,     \* documents inserted into MongoDB, in order
    now,                  \* int(time.time())
    pc,                   \* per handler: the await it is suspended at
    client_state,         \* per websocket: TRUE iff client_state is OPEN
    close_code,           \* per websocket: code of the server's close()
    sent,                 \* per websocket: frames written by send_text
    token,                \* handler local: data.get("jwt_token")
    user_id,              \* handler local
    chat_id,              \* handler local
    user_message,         \* handler local: data.get("message")
    push                  \* the call of send_to_chat in progress or returned

registry == <<active_connections, connection_metadata>>
locals == <<token, user_id, chat_id, user_message>>
vars == <<active_connections, connection_metadata, chats_collection, now, pc,
          client_state, close_code, sent, token, user_id, chat_id,
          user_message, push>>

\* value of a local that no statement has assigned yet
Unset == "<unset>"

(* ------------------------- registry operations ------------------------ *)
\* the bind cut after line 80: the forward entry is stored and the
\* metadata of lines 83-86 is not yet
BindConnection_forwardOnly(ac, md, user, chat, websocket) ==
    LET ac1 == IF user \notin DOMAIN ac THEN DictSet(ac, user, EmptyDict) ELSE ac
        ac2 == DictSet(ac1, user, DictSet(ac1[user], chat, websocket))
    IN  [ac |-> ac2, md |-> md]

\* the bind with setdefault instead of the assignment of line 80: a pair
\* that is already held keeps its connection
BindConnection_keepsFirst(ac, md, user, chat, websocket) ==
    LET ac1 == IF user \notin DOMAIN ac THEN DictSet(ac, user, EmptyDict) ELSE ac
        ac2 == IF chat \in DOMAIN ac1[user] THEN ac1
               ELSE DictSet(ac1, user, DictSet(ac1[user], chat, websocket))
        md1 == DictSet(md, get_websocket_id(websocket),
                       [user_id |-> user, chat_id |-> chat])
    IN  [ac |-> ac2, md |-> md1]

\* lines 77-86: store the connection under (user, chat) and its metadata
BindConnection(ac, md, user, chat, websocket) ==
    LET ac1 == IF user \notin DOMAIN ac THEN DictSet(ac, user, EmptyDict) ELSE ac
        ac2 == DictSet(ac1, user, DictSet(ac1[user], chat, websocket))
        md1 == DictSet(md, get_websocket_id(websocket),
                       [user_id |-> user, chat_id |-> chat])
    IN  [ac |-> ac2, md |-> md1]

\* the chat switch without lines 114-116: the old forward entry stays
ChatSwitch_keepsOld(ac, md, websocket, user, cur, rcv) ==
    IF Truthy(rcv) /\ rcv # cur
    THEN LET ac2 == IF user \notin DOMAIN ac
                    THEN DictSet(ac, user, EmptyDict) ELSE ac
             ac3 == DictSet(ac2, user, DictSet(ac2[user], rcv, websocket))
             wid == get_websocket_id(websocket)
         IN  IF wid \in DOMAIN md
             THEN [ac |-> ac3,
                   md |-> DictSet(md, wid, [md[wid] EXCEPT !.chat_id = rcv]),
                   chat_id |-> rcv, raised |-> FALSE]
             ELSE [ac |-> ac3, md |-> md, chat_id |-> rcv, raised |-> TRUE]
    ELSE [ac |-> ac, md |-> md, chat_id |-> cur, raised |-> FALSE]

\* the chat switch without line 123: the reverse entry keeps the old chat
ChatSwitch_staleMetadata(ac, md, websocket, user, cur, rcv) ==
    IF Truthy(rcv) /\ rcv # cur
    THEN LET ac1 == IF cur \in DOMAIN DictGet(ac, user, EmptyDict)
                    THEN DictSet(ac, user, DictDel(ac[user], cur))
                    ELSE ac
             ac2 == IF user \notin DOMAIN ac1
                    THEN DictSet(ac1, user, EmptyDict) ELSE ac1
             ac3 == DictSet(ac2, user, DictSet(ac2[user], rcv, websocket))
         IN  [ac |-> ac3, md |-> md, chat_id |-> rcv, raised |-> FALSE]
    ELSE [ac |-> ac, md |-> md, chat_id |-> cur, raised |-> FALSE]

\* the chat switch without the test of line 111 and with the new entry
\* stored before the old one is deleted
ChatSwitch_addThenDelete(ac, md, websocket, user, cur, rcv) ==
    IF Truthy(rcv)
    THEN LET ac1 == IF user \notin DOMAIN ac
                    THEN DictSet(ac, user, EmptyDict) ELSE ac
             ac2 == DictSet(ac1, user, DictSet(ac1[user], rcv, websocket))
             ac3 == IF cur \in DOMAIN ac2[user]
                    THEN DictSet(ac2, user, DictDel(ac2[user], cur))
                    ELSE ac2
             wid == get_websocket_id(websocket)
         IN  IF wid \in DOMAIN md
             THEN [ac |-> ac3,
                   md |-> DictSet(md, wid, [md[wid] EXCEPT !.chat_id = rcv]),
                   chat_id |-> rcv, raised |-> FALSE]
             ELSE [ac |-> ac3, md |-> md, chat_id |-> rcv, raised |-> TRUE]
    ELSE [ac |-> ac, md |-> md, chat_id |-> cur, raised |-> FALSE]

\* the chat switch with the maps switched to the received chat id and the local
\* chat_id of the handler keeps the old chat
ChatSwitch_keepsLocal(ac, md, websocket, user, cur, rcv) ==
    IF Truthy(rcv) /\ rcv # cur
    THEN LET ac1 == IF cur \in DOMAIN DictGet(ac, user, EmptyDict)
                    THEN DictSet(ac, user, DictDel(ac[user], cur))
                    ELSE ac
             ac2 == IF user \notin DOMAIN ac1
                    THEN DictSet(ac1, user, EmptyDict) ELSE ac1
             ac3 == DictSet(ac2, user, DictSet(ac2[user], rcv, websocket))
             wid == get_websocket_id(websocket)
         IN  IF wid \in DOMAIN md
             THEN [ac |-> ac3,
                   md |-> DictSet(md, wid, [md[wid] EXCEPT !.chat_id = rcv]),
                   chat_id |-> cur, raised |-> FALSE]
             ELSE [ac |-> ac3, md |-> md, chat_id |-> cur, raised |-> TRUE]
    ELSE [ac |-> ac, md |-> md, chat_id |-> cur, raised |-> FALSE]

\* lines 109-123: switch the connection to the chat id a frame names.
\* raised: the metadata update hit a missing key (KeyError), after the
\* forward map was already changed.
ChatSwitch(ac, md, websocket, user, cur, rcv) ==
    IF Truthy(rcv) /\ rcv # cur
    THEN LET ac1 == IF cur \in DOMAIN DictGet(ac, user, EmptyDict)
                    THEN DictSet(ac, user, DictDel(ac[user], cur))
                    ELSE ac
             ac2 == IF user \notin DOMAIN ac1
                    THEN DictSet(ac1, user, EmptyDict) ELSE ac1
             ac3 == DictSet(ac2, user, DictSet(ac2[user], rcv, websocket))
             wid == get_websocket_id(websocket)
         IN  IF wid \in DOMAIN md
             THEN [ac |-> ac3,
                   md |-> DictSet(md, wid, [md[wid] EXCEPT !.chat_id = rcv]),
                   chat_id |-> rcv, raised |-> FALSE]
             ELSE [ac |-> ac3, md |-> md, chat_id |-> rcv, raised |-> TRUE]
    ELSE [ac |-> ac, md |-> md, chat_id |-> cur, raised |-> FALSE]

\* the disconnect cleanup without lines 205-207: an emptied user key stays
DisconnectCleanup_keepsEmptyUser(ac, md, websocket_id) ==
    IF websocket_id \in DOMAIN md
    THEN LET stored_user_id == md[websocket_id].user_id
             stored_chat_id == md[websocket_id].chat_id
             ac1 == IF stored_user_id \in DOMAIN ac
                       /\ stored_chat_id \in DOMAIN ac[stored_user_id]
                    THEN DictSet(ac, stored_user_id,
                                 DictDel(ac[stored_user_id], stored_chat_id))
                    ELSE ac
         IN  [ac |-> ac1, md |-> DictDel(md, websocket_id)]
    ELSE [ac |-> ac, md |-> md]

\* the disconnect cleanup keyed on the handler's own user_id and chat_id
\* instead of the stored metadata and its membership test (line 192)
DisconnectCleanup_byLocals(ac, md, websocket_id) ==
    LET c == CHOOSE x \in Conns : get_websocket_id(x) = websocket_id
        ac1 == IF user_id[c] \in DOMAIN ac /\ chat_id[c] \in DOMAIN ac[user_id[c]]
               THEN LET a == DictSet(ac, user_id[c],
                                     DictDel(ac[user_id[c]], chat_id[c]))
                    IN  IF DOMAIN a[user_id[c]] = {}
                        THEN DictDel(a, user_id[c]) ELSE a
               ELSE ac
    IN  [ac |-> ac1, md |-> DictDel(md, websocket_id)]

\* the cleanup with the forward map searched by chat id alone: the stored
\* chat id is removed under every user
DisconnectCleanup_underEveryUser(ac, md, websocket_id) ==
    IF websocket_id \in DOMAIN md
    THEN LET stored_chat_id == md[websocket_id].chat_id
             kept == {u \in DOMAIN ac : DOMAIN ac[u] \ {stored_chat_id} # {}}
         IN  [ac |-> [u \in kept |->
                        [k \in DOMAIN ac[u] \ {stored_chat_id} |-> ac[u][k]]],
              md |-> DictDel(md, websocket_id)]
    ELSE [ac |-> ac, md |-> md]

\* lines 192-213: cleanup in the WebSocketDisconnect handler
DisconnectCleanup(ac, md, websocket_id) ==
    IF websocket_id \in DOMAIN md
    THEN LET stored_user_id == md[websocket_id].user_id
             stored_chat_id == md[websocket_id].chat_id
             ac1 == IF stored_user_id \in DOMAIN ac
                       /\ stored_chat_id \in DOMAIN ac[stored_user_id]
                    THEN LET a == DictSet(ac, stored_user_id,
                                      DictDel(ac[stored_user_id], stored_chat_id))
                         IN  IF DOMAIN a[stored_user_id] = {}
                             THEN DictDel(a, stored_user_id) ELSE a
                    ELSE ac
         IN  [ac |-> ac1, md |-> DictDel(md, websocket_id)]
    ELSE [ac |-> ac, md |-> md]

\* lines 239-252: cleanup in the generic exception handler
ErrorCleanup(ac, md, websocket_id) ==
    IF websocket_id \in DOMAIN md
    THEN LET stored_user_id == md[websocket_id].user_id
             stored_chat_id == md[websocket_id].chat_id
             ac1 == IF stored_user_id \in DOMAIN ac
                       /\ stored_chat_id \in DOMAIN ac[stored_user_id]
                    THEN LET a == DictSet(ac, stored_user_id,
                                      DictDel(ac[stored_user_id], stored_chat_id))
                         IN  IF DOMAIN a[stored_user_id] = {}
                             THEN DictDel(a, stored_user_id) ELSE a
                    ELSE ac
         IN  [ac |-> ac1, md |-> DictDel(md, websocket_id)]
    ELSE [ac |-> ac, md |-> md]

\* lines 266-270: list of active chat ids of a user
get_user_active_chats(user) ==
    IF user \in DOMAIN active_connections
    THEN DOMAIN active_connections[user] ELSE {}

\* lines 271-276: client_state.value == 1
is_websocket_open(websocket) == client_state[websocket]

\* the handshake without the branch of lines 60-62: the marker "new" is
\* bound like a chat id the client named
HandshakeChatId_newIsLiteral(rcv, user, timestamp, unique_part) ==
    IF Truthy(rcv) THEN rcv
    ELSE generate_unique_chat_id(user, timestamp, unique_part)

\* lines 58-71: the chat id the handshake binds
HandshakeChatId(rcv, user, timestamp, unique_part) ==
    IF rcv = "new" THEN generate_unique_chat_id(user, timestamp, unique_part)
    ELSE IF Truthy(rcv) THEN rcv
    ELSE generate_unique_chat_id(user, timestamp, unique_part)

(* ------------------------------- frames ------------------------------- *)
\* lines 91-95: the welcome frame
WelcomeFrame(chat) == [reply |-> "Connected to chat", error |-> FALSE, chatId |-> chat]

\* lines 158-162: the reply to a processed message
ResponseFrame(chat) == [reply |-> "ai_response_text", error |-> FALSE, chatId |-> chat]

\* lines 176-180: the reply to a message whose processing raised
ErrorResponseFrame(chat) ==
    [reply |-> "Error processing your request", error |-> TRUE, chatId |-> chat]

\* lines 221-225: the final frame of the generic exception handler
ConnectionErrorFrame(chat, user) ==
    [reply |-> "Connection error", error |-> TRUE,
     chatId |-> IF Truthy(chat) THEN chat
                ELSE IF Truthy(user) THEN user ELSE "unknown"]

(* ------------------------------- inputs ------------------------------- *)
\* values of jwt_token in a handshake frame: absent, empty, or a credential
TokenInputs == {None, ""} \cup Tokens
\* values of chatId in a frame: absent, empty, the marker, or a named chat
ChatIdInputs == {None, "", "new"} \cup ClientChats
\* values of message in a steady-state frame: absent, empty, or a text
MessageInputs == {None, "", "hello"}

\* close code of websocket.close(code=1008)
PolicyViolation == 1008
\* close_code of a websocket the server has not closed
NoClose == 0

\* messages the application pushes to a chat through send_to_chat
PushMessages ==
    {[reply |-> "notice", error |-> FALSE, chatId |-> "c1"],
     [reply |-> "notice", error |-> TRUE, chatId |-> "c1"]}

\* no call of send_to_chat has been made
NoPush == [stage |-> "none"]

(* --------------------------- delivery guard --------------------------- *)
\* safe_send_message without the test of lines 281-283: send_text is
\* called whatever the state of the socket
safe_send_message_unguarded(open, written) ==
    [attempted |-> TRUE, written |-> written, result |-> written,
     raised |-> FALSE]

\* lines 278-290: what safe_send_message does on a socket that
\* is_websocket_open reports open or not, when send_text returns (written)
\* or raises.  attempted: send_text was called; written: it returned;
\* result: the value returned; raised: an exception left the function.
safe_send_message(open, written) ==
    IF ~open
    THEN [attempted |-> FALSE, written |-> FALSE, result |-> FALSE,
          raised |-> FALSE]
    ELSE IF written
         THEN [attempted |-> TRUE, written |-> TRUE, result |-> TRUE,
               raised |-> FALSE]
         ELSE [attempted |-> TRUE, written |-> FALSE, result |-> FALSE,
               raised |-> FALSE]

(* -------------------------------- Init -------------------------------- *)
Init ==
    /\ active_connections = EmptyDict
    /\ connection_metadata = EmptyDict
    /\ chats_collection = << >>
    /\ now = 0
    /\ pc = [c \in Conns |-> "idle"]
    /\ client_state = [c \in Conns |-> FALSE]
    /\ close_code = [c \in Conns |-> NoClose]
    /\ sent = [c \in Conns |-> << >>]
    /\ token = [c \in Conns |-> Unset]
    /\ user_id = [c \in Conns |-> None]
    /\ chat_id = [c \in Conns |-> None]
    /\ user_message = [c \in Conns |-> Unset]
    /\ push = NoPush

(* ------------------------------- actions ------------------------------ *)
\* time.time() advances
Tick ==
    /\ now < MaxTime
    /\ now' = now + 1
    /\ UNCHANGED <<registry, chats_collection, pc, client_state, close_code,
                   sent, locals, push>>

\* line 41: await websocket.accept()
Accept(c) ==
    /\ pc[c] = "idle"
    /\ pc' = [pc EXCEPT ![c] = "handshake"]
    /\ client_state' = [client_state EXCEPT ![c] = TRUE]
    /\ UNCHANGED <<registry, chats_collection, now, close_code, sent, locals,
                   push>>

\* the peer goes away while the handler runs; the handler sees it through
\* is_websocket_open and through its next receive
ClientDisconnect(c) ==
    /\ pc[c] \notin {"idle", "closed"}
    /\ client_state[c]
    /\ client_state' = [client_state EXCEPT ![c] = FALSE]
    /\ UNCHANGED <<registry, chats_collection, now, pc, close_code, sent,
                   locals, push>>

\* lines 215-252 up to the first await: the generic exception handler,
\* entered with the registry as the failing statement left it
ExceptionPath(c, ac, md) ==
    IF is_websocket_open(c)
    THEN \* line 228: suspended in send_text of the final error frame
         /\ pc' = [pc EXCEPT ![c] = "finalerr"]
         /\ active_connections' = ac
         /\ connection_metadata' = md
    ELSE \* safe_send_message returned False at once; lines 239-252
         LET r == ErrorCleanup(ac, md, get_websocket_id(c))
         IN  /\ pc' = [pc EXCEPT ![c] = "closed"]
             /\ active_connections' = r.ac
             /\ connection_metadata' = r.md

\* lines 48-98: the first frame arrives
HandshakeFrame(c, tok, rcv, unique_part) ==
    /\ pc[c] = "handshake"
    /\ token' = [token EXCEPT ![c] = tok]
    /\ UNCHANGED <<chats_collection, now, client_state, sent, user_message,
                   push>>
    /\ IF ~Truthy(tok)
       THEN \* lines 50-52: close(code=1008) and return
            /\ close_code' = [close_code EXCEPT ![c] = PolicyViolation]
            /\ pc' = [pc EXCEPT ![c] = "closed"]
            /\ UNCHANGED <<registry, user_id, chat_id>>
       ELSE LET user == get_user_from_token(tok)
            IN  IF user.raised
                THEN \* line 54 raised: except Exception
                     /\ ExceptionPath(c, active_connections, connection_metadata)
                     /\ UNCHANGED <<close_code, user_id, chat_id>>
                ELSE LET chat == HandshakeChatId(rcv, user.user_id, now, unique_part)
                         r == BindConnection(active_connections,
                                             connection_metadata,
                                             user.user_id, chat, c)
                     IN  /\ user_id' = [user_id EXCEPT ![c] = user.user_id]
                         /\ chat_id' = [chat_id EXCEPT ![c] = chat]
                         /\ active_connections' = r.ac
                         /\ connection_metadata' = r.md
                         \* line 98: safe_send_message(welcome_response)
                         /\ pc' = [pc EXCEPT ![c] =
                                     IF is_websocket_open(c) THEN "welcome" ELSE "recv"]
                         /\ UNCHANGED close_code

\* the loop reading its next frame while the message of the previous one
\* is still with query_mem0 (processing detached from the loop)
ReceiveFrame_whileBusy(c, msg, rcv) ==
    /\ pc[c] \in {"recv", "query"}
    /\ Len(sent[c]) < MaxSent
    /\ Len(chats_collection) < MaxDocs
    /\ user_message' = [user_message EXCEPT ![c] = msg]
    /\ UNCHANGED <<chats_collection, now, client_state, close_code, sent,
                   token, user_id, push>>
    /\ LET sw == ChatSwitch(active_connections, connection_metadata, c,
                            user_id[c], chat_id[c], rcv)
       IN  /\ chat_id' = [chat_id EXCEPT ![c] = sw.chat_id]
           /\ IF sw.raised
              THEN ExceptionPath(c, sw.ac, sw.md)
              ELSE /\ active_connections' = sw.ac
                   /\ connection_metadata' = sw.md
                   /\ pc' = [pc EXCEPT ![c] =
                               IF ~Truthy(msg) THEN "recv"
                               ELSE IF ~is_websocket_open(c)
                                    THEN "closed"
                                    ELSE "query"]

\* the loop without lines 128-130: a frame without a message body is
\* processed like any other
ReceiveFrame_noBodyCheck(c, msg, rcv) ==
    /\ pc[c] = "recv"
    /\ Len(sent[c]) < MaxSent
    /\ Len(chats_collection) < MaxDocs
    /\ user_message' = [user_message EXCEPT ![c] = msg]
    /\ UNCHANGED <<chats_collection, now, client_state, close_code, sent,
                   token, user_id, push>>
    /\ LET sw == ChatSwitch(active_connections, connection_metadata, c,
                            user_id[c], chat_id[c], rcv)
       IN  /\ chat_id' = [chat_id EXCEPT ![c] = sw.chat_id]
           /\ IF sw.raised
              THEN ExceptionPath(c, sw.ac, sw.md)
              ELSE /\ active_connections' = sw.ac
                   /\ connection_metadata' = sw.md
                   /\ pc' = [pc EXCEPT ![c] =
                               IF ~is_websocket_open(c) THEN "closed"
                               ELSE "query"]

\* the loop treating the chat id "new" as the handshake does (lines 58-61):
\* the frame makes the handler allocate a fresh chat id and switch to it
ReceiveFrame_newAllocates(c, msg, rcv) ==
    /\ pc[c] = "recv"
    /\ Len(sent[c]) < MaxSent
    /\ Len(chats_collection) < MaxDocs
    /\ user_message' = [user_message EXCEPT ![c] = msg]
    /\ UNCHANGED <<chats_collection, now, client_state, close_code, sent,
                   token, user_id, push>>
    /\ \E unique_part \in UuidParts :
         LET sw == ChatSwitch(active_connections, connection_metadata, c,
                              user_id[c], chat_id[c],
                              IF rcv = "new"
                              THEN generate_unique_chat_id(user_id[c], now,
                                                           unique_part)
                              ELSE rcv)
         IN  /\ chat_id' = [chat_id EXCEPT ![c] = sw.chat_id]
             /\ IF sw.raised
                THEN ExceptionPath(c, sw.ac, sw.md)
                ELSE /\ active_connections' = sw.ac
                     /\ connection_metadata' = sw.md
                     /\ pc' = [pc EXCEPT ![c] =
                                 IF ~Truthy(msg) THEN "recv"
                                 ELSE IF ~is_websocket_open(c)
                                      THEN "closed"
                                      ELSE "query"]

\* lines 101-135: a steady-state frame arrives
ReceiveFrame(c, msg, rcv) ==
    /\ pc[c] = "recv"
    /\ Len(sent[c]) < MaxSent
    /\ Len(chats_collection) < MaxDocs
    /\ user_message' = [user_message EXCEPT ![c] = msg]
    /\ UNCHANGED <<chats_collection, now, client_state, close_code, sent,
                   token, user_id, push>>
    /\ LET sw == ChatSwitch(active_connections, connection_metadata, c,
                            user_id[c], chat_id[c], rcv)
       IN  /\ chat_id' = [chat_id EXCEPT ![c] = sw.chat_id]
           /\ IF sw.raised
              THEN ExceptionPath(c, sw.ac, sw.md)
              ELSE /\ active_connections' = sw.ac
                   /\ connection_metadata' = sw.md
                   /\ pc' = [pc EXCEPT ![c] =
                               IF ~Truthy(msg) THEN "recv"          \* line 130
                               ELSE IF ~is_websocket_open(c)
                                    THEN "closed"                   \* line 135
                                    ELSE "query"]                   \* line 142

\* lines 188-213: receive_json raised WebSocketDisconnect
ReceiveDisconnect(c) ==
    /\ pc[c] \in {"handshake", "recv"}
    /\ ~client_state[c]
    /\ LET r == DisconnectCleanup(active_connections, connection_metadata,
                                  get_websocket_id(c))
       IN  /\ active_connections' = r.ac
           /\ connection_metadata' = r.md
    /\ pc' = [pc EXCEPT ![c] = "closed"]
    /\ UNCHANGED <<chats_collection, now, client_state, close_code, sent,
                   locals, push>>

\* receive_json raised something else (payload that is not a JSON object)
ReceiveFault(c) ==
    /\ pc[c] \in {"handshake", "recv"}
    /\ ExceptionPath(c, active_connections, connection_metadata)
    /\ UNCHANGED <<chats_collection, now, client_state, close_code, sent,
                   locals, push>>

\* lines 142-154: query_mem0 returned; the handler awaits insert_one
QueryReturn(c) ==
    /\ pc[c] = "query"
    /\ pc' = [pc EXCEPT ![c] = "save"]
    /\ UNCHANGED <<registry, chats_collection, now, client_state, close_code,
                   sent, locals, push>>

\* query_mem0 raising without the inner handler of lines 172-186: the
\* exception reaches the generic handler of lines 215-252
QueryRaise_tearsDown(c) ==
    /\ pc[c] = "query"
    /\ ExceptionPath(c, active_connections, connection_metadata)
    /\ UNCHANGED <<chats_collection, now, client_state, close_code, sent,
                   locals, push>>

\* lines 172-186: query_mem0 raised; safe_send_message(error_response)
QueryRaise(c) ==
    /\ pc[c] = "query"
    /\ pc' = [pc EXCEPT ![c] = IF is_websocket_open(c) THEN "errreply" ELSE "recv"]
    /\ UNCHANGED <<registry, chats_collection, now, client_state, close_code,
                   sent, locals, push>>

\* the success path without line 165: the transcript is saved and the
\* handler goes back to receive_json without sending the reply
SaveDone_noReply(c, stored) ==
    /\ pc[c] = "save"
    /\ chats_collection' =
          IF stored
          THEN Append(chats_collection,
                      [user_id |-> user_id[c], chat_id |-> chat_id[c],
                       timestamp |-> now, user_message |-> user_message[c],
                       ai_response |-> "ai_response_text"])
          ELSE chats_collection
    /\ pc' = [pc EXCEPT ![c] = "recv"]
    /\ UNCHANGED <<registry, now, client_state, close_code, sent, locals,
                   push>>

\* save_chat_message without the except of lines 36-37: a failure of
\* insert_one reaches the inner handler of lines 172-186, which sends the
\* error-flagged reply
SaveDone_failureNotSwallowed(c, stored) ==
    /\ pc[c] = "save"
    /\ chats_collection' =
          IF stored
          THEN Append(chats_collection,
                      [user_id |-> user_id[c], chat_id |-> chat_id[c],
                       timestamp |-> now, user_message |-> user_message[c],
                       ai_response |-> "ai_response_text"])
          ELSE chats_collection
    /\ pc' = [pc EXCEPT ![c] = IF ~is_websocket_open(c) THEN "recv"
                               ELSE IF stored THEN "reply" ELSE "errreply"]
    /\ UNCHANGED <<registry, now, client_state, close_code, sent, locals,
                   push>>

\* lines 25-37 and 154-165: insert_one returned (stored) or raised
\* (swallowed); safe_send_message(response)
SaveDone(c, stored) ==
    /\ pc[c] = "save"
    /\ chats_collection' =
          IF stored
          THEN Append(chats_collection,
                      [user_id |-> user_id[c], chat_id |-> chat_id[c],
                       timestamp |-> now, user_message |-> user_message[c],
                       ai_response |-> "ai_response_text"])
          ELSE chats_collection
    /\ pc' = [pc EXCEPT ![c] = IF is_websocket_open(c) THEN "reply" ELSE "recv"]
    /\ UNCHANGED <<registry, now, client_state, close_code, sent, locals,
                   push>>

\* the frame safe_send_message is writing at pc
PendingFrame(c) ==
    CASE pc[c] = "welcome"  -> WelcomeFrame(chat_id[c])
      [] pc[c] = "reply"    -> ResponseFrame(chat_id[c])
      [] pc[c] = "errreply" -> ErrorResponseFrame(chat_id[c])
      [] pc[c] = "finalerr" -> ConnectionErrorFrame(chat_id[c], user_id[c])

\* lines 285-290: send_text returned (written) or raised (caught, False);
\* the handler goes back to receive_json
SendDone(c, written) ==
    /\ pc[c] \in {"welcome", "reply", "errreply"}
    /\ sent' = [sent EXCEPT ![c] = IF written THEN Append(@, PendingFrame(c)) ELSE @]
    /\ pc' = [pc EXCEPT ![c] = "recv"]
    /\ UNCHANGED <<registry, chats_collection, now, client_state, close_code,
                   locals, push>>

\* the generic handler without the try/except of lines 219-236 around the
\* final send: a send that fails leaves the handler before the cleanup
FinalSendDone_faultSkipsCleanup(c, written) ==
    /\ pc[c] = "finalerr"
    /\ sent' = [sent EXCEPT ![c] = IF written THEN Append(@, PendingFrame(c)) ELSE @]
    /\ LET r == IF written
                THEN ErrorCleanup(active_connections, connection_metadata,
                                  get_websocket_id(c))
                ELSE [ac |-> active_connections, md |-> connection_metadata]
       IN  /\ active_connections' = r.ac
           /\ connection_metadata' = r.md
    /\ pc' = [pc EXCEPT ![c] = "closed"]
    /\ UNCHANGED <<chats_collection, now, client_state, close_code, locals,
                   push>>

\* lines 228-252: the final error frame was written or not; cleanup
FinalSendDone(c, written) ==
    /\ pc[c] = "finalerr"
    /\ sent' = [sent EXCEPT ![c] = IF written THEN Append(@, PendingFrame(c)) ELSE @]
    /\ LET r == ErrorCleanup(active_connections, connection_metadata,
                             get_websocket_id(c))
       IN  /\ active_connections' = r.ac
           /\ connection_metadata' = r.md
    /\ pc' = [pc EXCEPT ![c] = "closed"]
    /\ UNCHANGED <<chats_collection, now, client_state, close_code, locals,
                   push>>

\* lines 254-260: send_to_chat looks the chat up and calls
\* safe_send_message, which returns at once on a socket that is not open
\* and otherwise awaits send_text
SendToChat(user, chat, message) ==
    /\ push.stage # "writing"
    /\ \A c \in Conns : Len(sent[c]) < MaxSent
    /\ IF user \in DOMAIN active_connections
          /\ chat \in DOMAIN active_connections[user]
       THEN LET websocket == active_connections[user][chat]
                open == is_websocket_open(websocket)
                r == safe_send_message(open, TRUE)
            IN  push' = [stage |-> IF r.attempted THEN "writing" ELSE "returned",
                         websocket |-> websocket, message |-> message,
                         open |-> open, result |-> r.result,
                         raised |-> r.raised]
       ELSE \* line 263
            push' = [stage |-> "returned", websocket |-> 0,
                     message |-> message, open |-> FALSE,
                     result |-> FALSE, raised |-> FALSE]
    /\ UNCHANGED <<registry, chats_collection, now, pc, client_state,
                   close_code, sent, locals>>

\* lines 285-290 and 260-263: send_text returned or raised; send_to_chat
\* returns what safe_send_message returned
SendToChatDone(written) ==
    /\ push.stage = "writing"
    /\ LET r == safe_send_message(push.open, written)
       IN  /\ sent' = [sent EXCEPT ![push.websocket] =
                         IF r.written THEN Append(@, push.message) ELSE @]
           /\ push' = [push EXCEPT !.stage = "returned",
                                   !.result = r.result /\ ~r.raised,
                                   !.raised = FALSE]
    /\ UNCHANGED <<registry, chats_collection, now, pc, client_state,
                   close_code, locals>>

\* every step connection c can take, with the frames it is sent drawn
\* from the given sets and the send and store outcomes from the given sets
Handler(c, tokens, hsChats, frChats, msgs, parts, writes, stores) ==
    \/ Accept(c)
    \/ ClientDisconnect(c)
    \/ \E tok \in tokens, rcv \in hsChats, unique_part \in parts :
          HandshakeFrame(c, tok, rcv, unique_part)
    \/ \E msg \in msgs, rcv \in frChats : ReceiveFrame(c, msg, rcv)
    \/ ReceiveDisconnect(c)
    \/ ReceiveFault(c)
    \/ QueryReturn(c)
    \/ QueryRaise(c)
    \/ \E stored \in stores : SaveDone(c, stored)
    \/ \E written \in writes : SendDone(c, written)
    \/ \E written \in writes : FinalSendDone(c, written)

\* The registry under every interleaving of the handlers.  The handler
\* ignores what safe_send_message and save_chat_message report (lines
\* 167-170, 185-186, 36-37), so the outputs are left unrecorded here.
Next ==
    \E c \in Conns :
        Handler(c, TokenInputs, ChatIdInputs, ChatIdInputs, {None, "hello"},
                UuidParts, {FALSE}, {FALSE})

Spec == Init /\ [][Next]_vars

\* One session with every frame and outcome, its outputs recorded, while
\* the clock advances.  The credentials are those of one user and the
\* uuid has one value: a single session allocates a single chat id.
SessionNext ==
    \/ Tick
    \/ Handler(1, TokenInputs \ {"jwt_u2"}, ChatIdInputs, ChatIdInputs,
               MessageInputs, {"a"}, BOOLEAN, BOOLEAN)

SessionSpec == Init /\ [][SessionNext]_vars

\* One session of user u1 over a transport on which every write to an
\* open socket completes, to follow each message to its reply.
DeliveryNext ==
    Handler(1, {None, "jwt_u1", "forged_u1"}, {None, "c1"}, {None, "c2"},
            MessageInputs, {"a"}, {TRUE}, BOOLEAN)

\* what the handler awaits comes back: query_mem0 returns or raises,
\* insert_one returns or raises, send_text returns
DeliveryFairness ==
    /\ WF_vars(QueryReturn(1) \/ QueryRaise(1))
    /\ WF_vars(\E stored \in BOOLEAN : SaveDone(1, stored))
    /\ WF_vars(SendDone(1, TRUE))
    /\ WF_vars(FinalSendDone(1, TRUE))

DeliverySpec == Init /\ [][DeliveryNext]_vars /\ DeliveryFairness

\* The application pushes messages to the chats of user u1 while a
\* handler of that user comes, switches chats and goes.
GuardNext ==
    \/ Handler(1, {"jwt_u1"}, {"c1"}, {None, "c2"}, {None, "hello"}, {"a"},
               {FALSE}, {FALSE})
    \/ \E chat \in ClientChats, message \in PushMessages :
          SendToChat("u1", chat, message)
    \/ \E written \in BOOLEAN : SendToChatDone(written)

GuardSpec == Init /\ [][GuardNext]_vars

(* ---------------------------- vocabulary ------------------------------ *)
\* the connection has a reverse entry
Bound(c) == get_websocket_id(c) \in DOMAIN connection_metadata

\* the reverse entry of a bound connection
Meta(c) == connection_metadata[get_websocket_id(c)]

\* the forward map binds (user, chat) to connection c
PointsTo(user, chat, c) ==
    /\ user \in DOMAIN active_connections
    /\ chat \in DOMAIN active_connections[user]
    /\ active_connections[user][chat] = c

\* some forward entry holds connection c
Referenced(c) ==
    \E user \in DOMAIN active_connections :
        \E chat \in DOMAIN active_connections[user] :
            active_connections[user][chat] = c

\* the handshake frame of c carried no credential or one that fails
\* verification
AuthFailed(c) ==
    /\ token[c] # Unset
    /\ (~Truthy(token[c]) \/ decode_jwt_token(token[c]).raised)

\* the handler of c got through its handshake (lines 54-86 ran)
Handshaken(c) == Truthy(user_id[c])

(* ------------------------------ claims -------------------------------- *)
\* C1 (I1, reverse to forward): every connection with a reverse entry
\* naming (user, chat) is the connection stored at forward[user][chat].
I1_ReverseToForward ==
    \A c \in Conns :
        Bound(c) => PointsTo(Meta(c).user_id, Meta(c).chat_id, c)

\* C2 (I1, forward to reverse): every forward entry forward[user][chat] = c
\* has a reverse entry for c that stores exactly (user, chat).
I1_ForwardToReverse ==
    \A user \in DOMAIN active_connections :
        \A chat \in DOMAIN active_connections[user] :
            LET c == active_connections[user][chat]
            IN  /\ Bound(c)
                /\ Meta(c) = [user_id |-> user, chat_id |-> chat]

\* C2 witness: a forward entry installed by a chat switch (only a switch
\* binds the id "new") while another connection of that user has closed
\* after its handshake.
I1_ForwardToReverse_Witness ==
    \E c \in Conns, d \in Conns :
        /\ c # d
        /\ Handshaken(c)
        /\ PointsTo(user_id[c], "new", c)
        /\ pc[d] = "closed"
        /\ user_id[d] = user_id[c]

\* C3 (supersession): at any instant at most one connection holds a
\* binding, forward or reverse, for a given (user, chat) pair; a handshake
\* onto a pair held by another connection removes that one's reverse entry.
SupersessionDropsOldReverse ==
    \A a \in Conns, b \in Conns :
        (a # b /\ Bound(a) /\ Bound(b)) => Meta(a) # Meta(b)

\* C4 (teardown on every path): a connection that completed its handshake
\* and is Closed has no reverse entry and no forward entry; with every
\* connection Closed both maps are empty.
ClosedIsUnbound ==
    /\ \A c \in Conns :
          (pc[c] = "closed" /\ Handshaken(c)) => (~Bound(c) /\ ~Referenced(c))
    /\ (\A c \in Conns : pc[c] = "closed") =>
          (active_connections = EmptyDict /\ connection_metadata = EmptyDict)

\* C5 (I3): a user key is in the forward map only with at least one chat
\* entry under it.
I3_NoEmptyUser ==
    \A user \in DOMAIN active_connections :
        DOMAIN active_connections[user] # {}

\* C5 witness: a teardown removed a user's last chat, and with it the user
\* key, while another user is still in the forward map.
I3_NoEmptyUser_Witness ==
    \E c \in Conns :
        /\ pc[c] = "closed"
        /\ Handshaken(c)
        /\ ~Bound(c)
        /\ user_id[c] \notin DOMAIN active_connections
        /\ DOMAIN active_connections # {}

\* the registry effect C6 states for a frame of connection c naming rcv
SwitchEffect(c, rcv) ==
    LET user == user_id[c]
        old == chat_id[c]
    IN  /\ user \in DOMAIN active_connections'
        /\ old \notin DOMAIN active_connections'[user]
        /\ rcv \in DOMAIN active_connections'[user]
        /\ active_connections'[user][rcv] = c
        /\ get_websocket_id(c) \in DOMAIN connection_metadata'
        /\ connection_metadata'[get_websocket_id(c)] =
              [user_id |-> user, chat_id |-> rcv]
        /\ chat_id'[c] = rcv
        /\ pc'[c] \in {"recv", "query"}

\* while a frame is being processed the chat id of the handler stays what
\* the frame left it, and the reply handed to safe_send_message carries it
ReplyCarriesCurrentChat ==
    \A c \in Conns :
        /\ pc[c] \in {"query", "save", "reply", "errreply"} =>
              /\ chat_id'[c] = chat_id[c]
              /\ Bound(c) /\ Meta(c).chat_id = chat_id[c]
              /\ get_websocket_id(c) \in DOMAIN connection_metadata'
              /\ connection_metadata'[get_websocket_id(c)] = Meta(c)
        /\ pc[c] \in {"reply", "errreply"} =>
              PendingFrame(c).chatId = Meta(c).chat_id

\* C6 as stated (conversation switch): a live connection bound to (u, old)
\* that receives a frame whose chatId is any string different from old is
\* rebound to it in that step, stays in its loop, and replies with it.
SwitchOnAnyDifferentChatId ==
    [][ /\ \A c \in Conns, msg \in MessageInputs, rcv \in ChatIdInputs \ {None} :
              (ReceiveFrame(c, msg, rcv) /\ client_state[c] /\ rcv # chat_id[c])
                  => SwitchEffect(c, rcv)
        /\ ReplyCarriesCurrentChat ]_vars

\* C6 amended: the same for every non-empty chatId different from old; an
\* empty chatId is treated as absent and switches nothing.
SwitchOnDifferentChatId ==
    [][ /\ \A c \in Conns, msg \in MessageInputs, rcv \in ChatIdInputs \ {None} :
              (ReceiveFrame(c, msg, rcv) /\ client_state[c] /\ rcv # chat_id[c])
                  => IF rcv # "" THEN SwitchEffect(c, rcv)
                     ELSE UNCHANGED <<registry, chat_id>>
        /\ ReplyCarriesCurrentChat ]_vars

\* C6 witness: a connection that bound one chat at its handshake is
\* replying on the chat "new" it switched to, while the other connection
\* holds a binding of the same user.
SwitchOnDifferentChatId_Witness ==
    \E c \in Conns, d \in Conns :
        /\ c # d
        /\ pc[c] \in {"reply", "errreply"}
        /\ chat_id[c] = "new"
        /\ PointsTo(user_id[c], "new", c)
        /\ Bound(d) /\ Meta(d).user_id = user_id[c]

\* C7 (idempotent teardown): for a connection without a reverse entry each
\* cleanup block returns the registry unchanged, and either block run
\* after either block changes nothing more.
TeardownIdempotent ==
    \A c \in Conns :
        LET w == get_websocket_id(c)
            r0 == [ac |-> active_connections, md |-> connection_metadata]
            d1 == DisconnectCleanup(r0.ac, r0.md, w)
            e1 == ErrorCleanup(r0.ac, r0.md, w)
        IN  /\ ~Bound(c) => (d1 = r0 /\ e1 = r0)
            /\ DisconnectCleanup(d1.ac, d1.md, w) = d1
            /\ ErrorCleanup(d1.ac, d1.md, w) = d1
            /\ DisconnectCleanup(e1.ac, e1.md, w) = e1
            /\ ErrorCleanup(e1.ac, e1.md, w) = e1

\* C7 witness: a connection already unbound by its teardown while the
\* pair it was bound to is held by the other connection, so that a second
\* teardown that removed anything would be seen.
TeardownIdempotent_Witness ==
    \E c \in Conns, d \in Conns :
        /\ c # d
        /\ pc[c] = "closed" /\ Handshaken(c) /\ ~Bound(c)
        /\ PointsTo(user_id[c], chat_id[c], d)

\* C8 (same-chat frame): a steady-state frame whose chatId is the current
\* chat id of the connection raises nothing and leaves both maps as they
\* were.
SameChatFrameKeepsRegistry ==
    [][ \A c \in Conns, msg \in MessageInputs :
            ReceiveFrame(c, msg, chat_id[c]) =>
                /\ UNCHANGED registry
                /\ chat_id'[c] = chat_id[c]
                /\ pc'[c] # "finalerr"
                /\ (pc'[c] = "closed" => ~client_state[c]) ]_vars

\* C8 witness: a bound connection that has read a steady-state frame and
\* is processing its message on the chat it is bound to, the other
\* connection bound as well.
SameChatFrameKeepsRegistry_Witness ==
    \E c \in Conns, d \in Conns :
        /\ c # d
        /\ pc[c] = "query"
        /\ user_message[c] = "hello"
        /\ PointsTo(user_id[c], chat_id[c], c)
        /\ Bound(d)

\* a welcome frame is among the frames written to c
WelcomeSent(c) ==
    \E i \in 1..Len(sent[c]) : sent[c][i].reply = WelcomeFrame(None).reply

\* C9 (failed authentication): a connection whose handshake carried no
\* credential or a credential that fails verification is closed with
\* code 1008, gets no welcome frame and has no message processed.
AuthFailureClosesWithPolicyViolation ==
    \A c \in Conns :
        (AuthFailed(c) /\ pc[c] = "closed") =>
            /\ close_code[c] = PolicyViolation
            /\ ~WelcomeSent(c)
            /\ ~Handshaken(c)
            /\ user_message[c] = Unset

\* C10 (failed authentication leaves the registry alone): no step of a
\* connection whose handshake fails authentication, from accept to its
\* error-path cleanup, changes the forward or the reverse map.
AuthFailureKeepsRegistry ==
    [][ \A c \in Conns :
            (pc'[c] # pc[c] /\ (pc[c] = "idle" \/ AuthFailed(c)'))
                => UNCHANGED registry ]_vars

\* C10 witness: a connection closed after a credential that failed
\* verification, its final error frame attempted and its cleanup run,
\* while the other connection is bound.
AuthFailureKeepsRegistry_Witness ==
    \E c \in Conns, d \in Conns :
        /\ c # d
        /\ pc[c] = "closed"
        /\ token[c] = "forged_u1"
        /\ Bound(d) /\ Referenced(d)
        /\ user_id[d] = "u1"

\* the effect C11 states for a handshake frame of connection c that
\* carries a valid credential and the chatId rcv, the chat id being
\* allocated exactly for the values of chatId in `allocating`
HandshakeEffect(c, tok, rcv, unique_part, allocating) ==
    LET user == get_user_from_token(tok).user_id
        chat == IF rcv \in allocating
                THEN generate_unique_chat_id(user, now, unique_part)
                ELSE rcv
    IN  /\ chat_id'[c] = chat
        /\ user_id'[c] = user
        /\ user \in DOMAIN active_connections'
        /\ chat \in DOMAIN active_connections'[user]
        /\ active_connections'[user][chat] = c
        /\ get_websocket_id(c) \in DOMAIN connection_metadata'
        /\ connection_metadata'[get_websocket_id(c)] =
              [user_id |-> user, chat_id |-> chat]
        /\ sent'[c] = << >>
        /\ user_message'[c] = Unset
        /\ pc'[c] = IF client_state[c] THEN "welcome" ELSE "recv"

\* the welcome frame is written at most once, as the first frame of the
\* connection, and while it is being written no steady-state frame has
\* been read and the frame carries the chat id the connection is bound to
WelcomeFirst ==
    \A c \in Conns :
        /\ \A i \in 1..Len(sent[c]) :
              sent[c][i].reply = WelcomeFrame(None).reply =>
                  (i = 1 /\ ~sent[c][i].error)
        /\ pc[c] = "welcome" =>
              /\ sent[c] = << >>
              /\ user_message[c] = Unset
              /\ Bound(c)
              /\ PendingFrame(c) = WelcomeFrame(Meta(c).chat_id)
              /\ ~PendingFrame(c).error

\* C11 as stated (handshake chat id): the handshake allocates a fresh chat
\* id exactly when chatId is absent or "new" and binds every other
\* supplied string, the empty one included, unchanged; it sends the one
\* welcome frame, carrying the bound id, before any steady-state frame.
HandshakeBindsEverySuppliedString ==
    /\ []WelcomeFirst
    /\ [][ \A c \in Conns, tok \in ValidTokens, rcv \in ChatIdInputs,
              unique_part \in UuidParts :
                HandshakeFrame(c, tok, rcv, unique_part) =>
                    HandshakeEffect(c, tok, rcv, unique_part, {None, "new"}) ]_vars

\* C11 amended: the handshake allocates a fresh chat id exactly when
\* chatId is absent, empty or "new" and binds every non-empty other string
\* unchanged; it sends the one welcome frame, carrying the bound id,
\* before any steady-state frame.
HandshakeBindsSuppliedChatId ==
    /\ []WelcomeFirst
    /\ [][ \A c \in Conns, tok \in ValidTokens, rcv \in ChatIdInputs,
              unique_part \in UuidParts :
                HandshakeFrame(c, tok, rcv, unique_part) =>
                    HandshakeEffect(c, tok, rcv, unique_part,
                                    {None, "", "new"}) ]_vars

\* C11 witness: a connection whose handshake allocated its chat id in
\* clock second 1 has been sent the welcome frame carrying that id, as its
\* only frame so far, and has gone on to read a steady-state frame.
HandshakeBindsSuppliedChatId_Witness ==
    \E c \in Conns, unique_part \in UuidParts :
        LET chat == generate_unique_chat_id(user_id[c], 1, unique_part)
        IN  /\ Handshaken(c)
            /\ sent[c] = <<WelcomeFrame(chat)>>
            /\ PointsTo(user_id[c], chat, c)
            /\ user_message[c] # Unset

\* C12 (failed query keeps the session): when query_mem0 raises, the
\* handler hands one error-flagged reply carrying its chat id to
\* safe_send_message, closes nothing, leaves both maps and its binding as
\* they were, and is back at receive_json once that send has returned.
QueryFailureKeepsSession ==
    [][ \A c \in Conns :
          /\ QueryRaise(c) =>
                /\ UNCHANGED <<registry, close_code, sent, chats_collection>>
                /\ Bound(c)
                /\ pc'[c] = IF client_state[c] THEN "errreply" ELSE "recv"
          /\ (pc[c] = "errreply" /\ pc'[c] # pc[c]) =>
                /\ UNCHANGED <<registry, close_code, chats_collection>>
                /\ Bound(c)
                /\ PendingFrame(c) = ErrorResponseFrame(Meta(c).chat_id)
                /\ PendingFrame(c).error
                /\ sent'[c] \in {sent[c], Append(sent[c], PendingFrame(c))}
                /\ pc'[c] = "recv" ]_vars

\* C12 witness: a connection that was sent an error-flagged reply as its
\* latest frame is still bound and is processing a later message.
QueryFailureKeepsSession_Witness ==
    \E c \in Conns :
        /\ Len(sent[c]) > 0
        /\ sent[c][Len(sent[c])] = ErrorResponseFrame(chat_id[c])
        /\ pc[c] = "query"
        /\ PointsTo(user_id[c], chat_id[c], c)
        /\ close_code[c] = NoClose

\* frame f is a reply to a message: the success reply or the error reply
IsReply(f, chat) == f \in {ResponseFrame(chat), ErrorResponseFrame(chat)}

\* no step writes more than one frame to c; a reply is written only by the
\* send that ends the processing of a message, which started from a frame
\* with a body; a frame without a body writes nothing and starts nothing
AtMostOneReplyPerFrame ==
    \A c \in Conns :
        /\ sent'[c] # sent[c] =>
              /\ pc[c] \in {"welcome", "reply", "errreply", "finalerr"}
              /\ sent'[c] = Append(sent[c], PendingFrame(c))
              /\ pc'[c] \in {"recv", "closed"}
        /\ (pc[c] \in {"reply", "errreply"} /\ pc'[c] # pc[c]) =>
              /\ IsReply(PendingFrame(c), chat_id[c])
              /\ PendingFrame(c).error = (pc[c] = "errreply")
              /\ pc'[c] = "recv"
        /\ (pc'[c] \in {"reply", "errreply"} /\ pc'[c] # pc[c]) =>
              (pc[c] \in {"query", "save"} /\ Truthy(user_message[c]))
        /\ (pc'[c] = "query" /\ pc[c] # "query") =>
              (pc[c] = "recv" /\ Truthy(user_message'[c]))
        /\ \A msg \in MessageInputs, rcv \in ChatIdInputs :
              (ReceiveFrame(c, msg, rcv) /\ ~Truthy(msg)) =>
                  (sent'[c] = sent[c] /\ pc'[c] = "recv")

\* the message connection c is processing, n frames written to c so far,
\* gets its reply as frame n + 1 unless the client has gone away
ReplyArrives(c, n) ==
    (pc[c] = "query" /\ client_state[c] /\ Len(sent[c]) = n)
        ~> \/ ~client_state[c]
           \/ /\ pc[c] = "recv"
              /\ Len(sent[c]) = n + 1
              /\ IsReply(sent[c][n + 1], chat_id[c])

InFlight(c) == pc[c] \in {"query", "save", "reply", "errreply"}

\* C14 (per-connection ordering): from the frame with a body to the return
\* of the send that answers it the handler reads no other frame, so the
\* request it holds is the one the reply answers; it moves only forward
\* through query, save and send, and the steps of other connections
\* change nothing of it.
RepliesInRequestOrder ==
    [][ \A c \in Conns :
          /\ InFlight(c) =>
                /\ Truthy(user_message[c])
                /\ user_message'[c] = user_message[c]
                /\ chat_id'[c] = chat_id[c]
                /\ pc'[c] # pc[c] =>
                      CASE pc[c] = "query" -> pc'[c] \in {"save", "errreply", "recv"}
                        [] pc[c] = "save"  -> pc'[c] \in {"reply", "recv"}
                        [] OTHER           -> pc'[c] = "recv"
          /\ (pc'[c] = "query" /\ pc[c] # "query") => pc[c] = "recv"
          /\ \A d \in Conns \ {c} :
                (pc'[d] # pc[d] \/ user_message'[d] # user_message[d]
                                \/ chat_id'[d] # chat_id[d]) =>
                    /\ pc'[c] = pc[c]
                    /\ user_message'[c] = user_message[c]
                    /\ chat_id'[c] = chat_id[c]
                    /\ sent'[c] = sent[c] ]_vars

\* C14 witness: two connections of one user on the same chat, each with
\* its own request in flight, one already at the send of its reply.
RepliesInRequestOrder_Witness ==
    \E c \in Conns, d \in Conns :
        /\ c # d
        /\ pc[c] \in {"reply", "errreply"}
        /\ pc[d] = "query"
        /\ user_id[c] = user_id[d]
        /\ chat_id[c] = chat_id[d]

\* C15 (frame without a body): a steady-state frame whose message is
\* absent or empty starts no query, writes no transcript and no frame,
\* closes nothing and leaves the handler bound and at receive_json; it
\* changes the registry only by the chat switch of a chatId that differs
\* from the current one.
NoBodyFrameOnlySwitches ==
    [][ \A c \in Conns, msg \in {None, ""}, rcv \in ChatIdInputs :
            ReceiveFrame(c, msg, rcv) =>
                /\ pc'[c] = "recv"
                /\ UNCHANGED <<sent, chats_collection, close_code, user_id>>
                /\ get_websocket_id(c) \in DOMAIN connection_metadata'
                /\ IF Truthy(rcv) /\ rcv # chat_id[c]
                   THEN SwitchEffect(c, rcv)
                   ELSE UNCHANGED <<registry, chat_id>> ]_vars

\* C15 witness: a connection that was welcomed on the chat c1 has read a
\* frame with an empty message naming the chat c2: it is bound to c2, at
\* receive_json, with no other frame written and no transcript stored.
NoBodyFrameOnlySwitches_Witness ==
    \E c \in Conns :
        /\ pc[c] = "recv"
        /\ user_message[c] = ""
        /\ sent[c] = <<WelcomeFrame("c1")>>
        /\ PointsTo(user_id[c], "c2", c)
        /\ Meta(c).chat_id = "c2"
        /\ chats_collection = << >>

\* what C16 states of one call, from the state of the socket and the
\* outcome of send_text to what safe_send_message does and returns
GuardOutcome(open, written) ==
    LET r == safe_send_message(open, written)
    IN  /\ r.result \in BOOLEAN
        /\ ~r.raised
        /\ ~open => (~r.attempted /\ ~r.result)
        /\ (open /\ ~written) => ~r.result
        /\ r.result => (r.attempted /\ r.written)

\* C16 (delivery guard): safe_send_message returns a boolean and never
\* raises; on a socket that is not open it returns False without calling
\* send_text, so nothing is written; when send_text raises it returns
\* False; it returns True only when send_text returned, the frame then
\* being the last one written to the socket.
DeliveryGuardContract ==
    /\ [](/\ \A open \in BOOLEAN, written \in BOOLEAN : GuardOutcome(open, written)
          /\ push.stage = "writing" => push.open
          /\ push.stage = "returned" =>
                /\ push.result \in BOOLEAN
                /\ ~push.raised
                /\ ~push.open => ~push.result)
    /\ [][ /\ (push.stage # "writing" /\ push' # push /\ push'.stage = "returned")
                => (sent' = sent /\ ~push'.result)
           /\ (push.stage = "writing" /\ push'.stage = "returned")
                => sent' = IF push'.result
                           THEN [sent EXCEPT ![push.websocket] =
                                    Append(@, push.message)]
                           ELSE sent ]_vars

\* C16 witness: a push to a chat of u1 returned True and its
\* error-flagged message is the last frame written to the connection
\* that held the chat, whose client has meanwhile gone away.
DeliveryGuardContract_Witness ==
    /\ push.stage = "returned"
    /\ push.result
    /\ push.websocket = 1
    /\ push.message.error
    /\ Len(sent[1]) > 0
    /\ sent[1][Len(sent[1])] = push.message
    /\ ~client_state[1]

\* the chat ids generate_unique_chat_id can return; no client names one
AllocatedIds ==
    {generate_unique_chat_id(user, timestamp, unique_part) :
        user \in Users, timestamp \in 0..MaxTime, unique_part \in UuidParts}

\* C17 (collision-free allocation): the chat ids allocated to different
\* connections, of one user or of several, in one clock second or in
\* several, are pairwise distinct.
AllocationsPairwiseDistinct ==
    \A c \in Conns, d \in Conns :
        (c # d /\ chat_id[c] \in AllocatedIds /\ chat_id[d] \in AllocatedIds)
            => chat_id[c] # chat_id[d]

\* C18 (second bind wins): when a handshake binds connection c to a pair
\* (user, chat) that another connection of the user has bound, then right
\* after that step forward[user][chat] is c, and chat is among the active
\* chats of the user, whose list has no chat twice.
SecondBindWins ==
    [][ \A c \in Conns, d \in Conns, tok \in ValidTokens,
          rcv \in ChatIdInputs, unique_part \in UuidParts :
            LET user == user_id'[c]
                chat == chat_id'[c]
            IN  (/\ HandshakeFrame(c, tok, rcv, unique_part)
                 /\ d # c
                 /\ Bound(d)
                 /\ Meta(d) = [user_id |-> user, chat_id |-> chat])
                    => /\ user \in DOMAIN active_connections'
                       /\ chat \in DOMAIN active_connections'[user]
                       /\ active_connections'[user][chat] = c
                       /\ active_connections'[user][chat] # d
                       /\ Cardinality({x \in DOMAIN active_connections'[user] :
                                          x = chat}) = 1 ]_vars

\* C18 witness: two connections of one user have bound the same chat; the
\* one whose handshake has just run, its welcome frame still being
\* written, is the one the forward map holds, and the user has that one
\* active chat.
SecondBindWins_Witness ==
    \E c \in Conns, d \in Conns :
        /\ c # d
        /\ pc[c] = "welcome"
        /\ pc[d] \in {"recv", "query", "save", "reply", "errreply"}
        /\ Bound(c) /\ Bound(d) /\ Meta(c) = Meta(d)
        /\ PointsTo(user_id[c], chat_id[c], c)
        /\ get_user_active_chats(user_id[c]) = {chat_id[c]}

\* at the await where the handler of c is suspended no registry operation
\* of c is half done: before its bind and after its teardown c has no
\* reverse entry, in between its reverse entry is the pair its locals hold
SettledAtAwait(c) ==
    CASE pc[c] \in {"idle", "handshake"} -> ~Bound(c)
      [] pc[c] \in {"welcome", "recv", "query", "save", "reply", "errreply"} ->
            /\ Bound(c)
            /\ Meta(c) = [user_id |-> user_id[c], chat_id |-> chat_id[c]]
      [] pc[c] = "finalerr" ->
            /\ Bound(c) = Handshaken(c)
            /\ Bound(c) => Meta(c).user_id = user_id[c]
      [] pc[c] = "closed" ->
            Bound(c) => Meta(c) = [user_id |-> user_id[c], chat_id |-> chat_id[c]]

\* the step is the whole bind of c: reverse entry and forward entry
WholeBind(c) ==
    LET w == get_websocket_id(c)
    IN  /\ pc[c] = "handshake"
        /\ w \notin DOMAIN connection_metadata
        /\ w \in DOMAIN connection_metadata'
        /\ LET m == connection_metadata'[w]
           IN  /\ m.user_id \in DOMAIN active_connections'
               /\ m.chat_id \in DOMAIN active_connections'[m.user_id]
               /\ active_connections'[m.user_id][m.chat_id] = c

\* the step is the whole chat switch of c: old forward entry removed, new
\* one stored, reverse entry updated
WholeSwitch(c) ==
    LET w == get_websocket_id(c)
    IN  /\ pc[c] = "recv"
        /\ w \in DOMAIN connection_metadata
        /\ w \in DOMAIN connection_metadata'
        /\ LET old == connection_metadata[w]
               m == connection_metadata'[w]
           IN  /\ m.user_id = old.user_id
               /\ m.chat_id # old.chat_id
               /\ m.user_id \in DOMAIN active_connections'
               /\ old.chat_id \notin DOMAIN active_connections'[m.user_id]
               /\ m.chat_id \in DOMAIN active_connections'[m.user_id]
               /\ active_connections'[m.user_id][m.chat_id] = c

\* the step is the whole teardown of c: reverse entry removed, the forward
\* entry it named removed, the user key removed if that emptied it
WholeTeardown(c) ==
    LET w == get_websocket_id(c)
    IN  /\ pc'[c] = "closed"
        /\ w \in DOMAIN connection_metadata
        /\ w \notin DOMAIN connection_metadata'
        /\ LET old == connection_metadata[w]
           IN  \/ old.user_id \notin DOMAIN active_connections'
               \/ /\ old.chat_id \notin DOMAIN active_connections'[old.user_id]
                  /\ DOMAIN active_connections'[old.user_id] # {}

\* C19 (registry atomicity): every step that changes the registry is one
\* whole bind, chat switch or teardown of one connection, both maps
\* updated in that step, and at every await of every handler no operation
\* of that handler on the registry is half done and no forward entry
\* lacks its reverse entry.
RegistryStepsAreWhole ==
    /\ [](\A c \in Conns : SettledAtAwait(c))
    /\ [](\A user \in DOMAIN active_connections :
            /\ DOMAIN active_connections[user] # {}
            /\ \A chat \in DOMAIN active_connections[user] :
                  Bound(active_connections[user][chat]))
    /\ [][ registry' # registry =>
              \E c \in Conns :
                  /\ \A d \in Conns \ {c} :
                        /\ pc'[d] = pc[d]
                        /\ get_websocket_id(d) \in DOMAIN connection_metadata
                              <=> get_websocket_id(d) \in DOMAIN connection_metadata'
                        /\ Bound(d) => connection_metadata'[get_websocket_id(d)] = Meta(d)
                  /\ (WholeBind(c) \/ WholeSwitch(c) \/ WholeTeardown(c)) ]_vars

\* C19 witness: while one handler awaits query_mem0 with its binding in
\* place, the handler of another user has bound, been torn down and had
\* its emptied user key removed.
RegistryStepsAreWhole_Witness ==
    \E c \in Conns, d \in Conns :
        /\ pc[c] = "query"
        /\ PointsTo(user_id[c], chat_id[c], c)
        /\ pc[d] = "closed" /\ Handshaken(d) /\ ~Bound(d)
        /\ user_id[d] # user_id[c]
        /\ DOMAIN active_connections = {user_id[c]}

\* the step is taken by the handler of connection c
ActsIn(c) ==
    \/ pc'[c] # pc[c]
    \/ chat_id'[c] # chat_id[c]
    \/ user_message'[c] # user_message[c]

\* C20 (bindings are owned): a forward entry (user, chat) that points to
\* connection b is removed only by a step of b itself; a teardown or chat
\* switch of another connection, one that b superseded on the pair
\* included, leaves it in place.  (A step that binds the pair again
\* replaces the entry and is allowed.)
ForwardEntryRemovedOnlyByOwner ==
    [][ \A user \in DOMAIN active_connections :
          \A chat \in DOMAIN active_connections[user] :
              (\/ user \notin DOMAIN active_connections'
               \/ chat \notin DOMAIN active_connections'[user])
                  => ActsIn(active_connections[user][chat]) ]_vars

\* C21 (disconnect reaches teardown): a handler whose client disconnected
\* while it was suspended, and which has run to its end, has run its
\* teardown: the connection has no reverse entry and the forward map does
\* not hold it.
DisconnectedHandlerEndsUnbound ==
    \A c \in Conns :
        (pc[c] = "closed" /\ ~client_state[c] /\ Handshaken(c))
            => (~Bound(c) /\ ~PointsTo(user_id[c], chat_id[c], c))

\* frame f is the final frame of the generic exception handler
IsConnectionError(f) == f.reply = ConnectionErrorFrame(None, None).reply

\* C22 (error path): a handler that an exception other than a disconnect
\* takes out of its loop hands one error-flagged final frame to
\* safe_send_message with the registry still as it was, and then, whether
\* that frame was written, refused or failed, removes its registry entries
\* and ends; the final frame is never followed by another frame.
ErrorPathSendsThenCleans ==
    /\ [](\A c \in Conns :
            /\ \A i \in 1..Len(sent[c]) :
                  IsConnectionError(sent[c][i]) =>
                      /\ i = Len(sent[c])
                      /\ sent[c][i].error
                      /\ pc[c] = "closed"
                      /\ ~Bound(c)
            /\ pc[c] = "finalerr" =>
                  (PendingFrame(c).error /\ IsConnectionError(PendingFrame(c))))
    /\ [][ \A c \in Conns :
              /\ (pc'[c] = "finalerr" /\ pc[c] # "finalerr") =>
                    (UNCHANGED <<registry, sent>> /\ client_state[c])
              /\ (pc[c] = "finalerr" /\ pc'[c] # pc[c]) =>
                    /\ pc'[c] = "closed"
                    /\ get_websocket_id(c) \notin DOMAIN connection_metadata'
                    /\ [ac |-> active_connections', md |-> connection_metadata'] =
                          ErrorCleanup(active_connections, connection_metadata,
                                       get_websocket_id(c))
                    /\ sent'[c] \in {sent[c], Append(sent[c], PendingFrame(c))}
              /\ ReceiveFault(c) =>
                    /\ pc'[c] = IF client_state[c] THEN "finalerr" ELSE "closed"
                    /\ ~client_state[c] =>
                          get_websocket_id(c) \notin DOMAIN connection_metadata' ]_vars

\* C22 witness: a connection that was welcomed and bound has ended on the
\* error path: the final error frame is the last of its two frames and
\* its registry entries are gone.
ErrorPathSendsThenCleans_Witness ==
    \E c \in Conns :
        /\ pc[c] = "closed"
        /\ Handshaken(c)
        /\ ~Bound(c) /\ ~Referenced(c)
        /\ sent[c] = <<WelcomeFrame(chat_id[c]),
                       ConnectionErrorFrame(chat_id[c], user_id[c])>>

\* the step the handler of d is waiting to take can be taken now
NextStepEnabled(d) ==
    CASE pc[d] = "idle" -> ENABLED Accept(d)
      [] pc[d] = "handshake" ->
            /\ ENABLED HandshakeFrame(d, "jwt_u1", "c1", "a")
            /\ ~client_state[d] => ENABLED ReceiveDisconnect(d)
      [] pc[d] = "recv" ->
            /\ ENABLED ReceiveFrame(d, "hello", "c2")
            /\ ENABLED ReceiveFrame(d, None, "new")
            /\ ~client_state[d] => ENABLED ReceiveDisconnect(d)
      [] pc[d] = "query" -> (ENABLED QueryReturn(d) /\ ENABLED QueryRaise(d))
      [] pc[d] = "save" -> ENABLED SaveDone(d, FALSE)
      [] pc[d] \in {"welcome", "reply", "errreply"} -> ENABLED SendDone(d, FALSE)
      [] pc[d] = "finalerr" -> ENABLED FinalSendDone(d, FALSE)
      [] OTHER -> TRUE

\* the handler, locals and registry entries of d are left as they were
Untouched(d) ==
    /\ pc'[d] = pc[d]
    /\ user_id'[d] = user_id[d]
    /\ chat_id'[d] = chat_id[d]
    /\ user_message'[d] = user_message[d]
    /\ get_websocket_id(d) \in DOMAIN connection_metadata
          <=> get_websocket_id(d) \in DOMAIN connection_metadata'
    /\ Bound(d) => connection_metadata'[get_websocket_id(d)] = Meta(d)
    /\ \A user \in DOMAIN active_connections :
          \A chat \in DOMAIN active_connections[user] :
              active_connections[user][chat] = d =>
                  /\ user \in DOMAIN active_connections'
                  /\ chat \in DOMAIN active_connections'[user]
                  /\ active_connections'[user][chat] = d

\* the step is one of the handler of c processing a message or failing:
\* from the frame to the reply, a failed query and its error reply
\* included, or through the generic exception handler to its cleanup
ProcessesOrFails(c) ==
    \/ InFlight(c) /\ pc'[c] # pc[c]
    \/ ReceiveFault(c)
    \/ pc[c] = "finalerr" /\ pc'[c] # pc[c]

\* C23 (connection isolation): while the handler of one connection waits
\* for query_mem0, however long, every other handler can take the step
\* it is waiting for: accept, handshake, frame, chat switch, reply,
\* teardown; and the steps of a connection that processes a message or
\* fails leave the handler and the registry entries of every other
\* connection as they were.
StalledOrFailedConnectionIsIsolated ==
    /\ [](\A c \in Conns, d \in Conns :
            (c # d /\ pc[c] = "query") => NextStepEnabled(d))
    /\ [][ \A c \in Conns, d \in Conns :
              (c # d /\ ProcessesOrFails(c)) => Untouched(d) ]_vars

\* C24 (reply chat id): the chat id a handler holds is the chat id of its
\* reverse entry for as long as the connection has one, at every await;
\* the reply frame, success or error-flagged, that safe_send_message is
\* writing carries that chat id.
ReplyChatIdIsStoredChatId ==
    \A c \in Conns :
        /\ Bound(c) => Meta(c).chat_id = chat_id[c]
        /\ pc[c] \in {"reply", "errreply"} =>
              /\ Bound(c)
              /\ IsReply(PendingFrame(c), Meta(c).chat_id)
              /\ PendingFrame(c).chatId = Meta(c).chat_id

\* C24 witness: a connection that switched to the chat c2 is sending a
\* reply while another connection of the user is bound to a different
\* chat and waits for query_mem0.
ReplyChatIdIsStoredChatId_Witness ==
    \E c \in Conns, d \in Conns :
        /\ c # d
        /\ pc[c] \in {"reply", "errreply"}
        /\ Meta(c).chat_id = "c2"
        /\ PendingFrame(c).chatId = "c2"
        /\ pc[d] = "query"
        /\ Meta(d).user_id = Meta(c).user_id
        /\ Meta(d).chat_id \in AllocatedIds

\* the chat document of lines 28-34 for the message connection c is
\* processing
ChatDocument(c, d) ==
    /\ d.user_id = user_id[c]
    /\ d.chat_id = Meta(c).chat_id
    /\ d.user_message = user_message[c]
    /\ d.ai_response = "ai_response_text"

\* C25 (transcript): save_chat_message is called exactly for a message
\* whose query_mem0 call returned, and before the reply of that message is
\* sent: the collection changes only by one document (user, current chat
\* id, request, response) appended in the step that leaves the save, with no
\* frame sent in that step; a raising query_mem0 and a frame without a
\* message never lead to the save and leave the collection alone; a failing
\* insert_one is swallowed, the handler goes on to send the reply with
\* error false (or back to receive_json if the client has gone) and the
\* connection stays bound.
TranscriptOnSuccessBeforeReply ==
    /\ [](\A c \in Conns :
            /\ pc[c] = "save" =>
                  /\ Truthy(user_message[c])
                  /\ Bound(c)
                  /\ ENABLED SaveDone(c, TRUE)
                  /\ ENABLED SaveDone(c, FALSE))
    /\ [][ \A c \in Conns :
            \* the collection grows only by the document of a handler that
            \* leaves the save, and before that handler sends
            /\ chats_collection' # chats_collection =>
                  \E d \in Conns :
                      /\ pc[d] = "save" /\ pc'[d] \in {"reply", "recv"}
                      /\ chats_collection' =
                            Append(chats_collection,
                                   chats_collection'[Len(chats_collection')])
                      /\ ChatDocument(d, chats_collection'[Len(chats_collection')])
                      /\ sent' = sent
            \* the save is entered only from a query that returned
            /\ (pc'[c] = "save" /\ pc[c] # "save") => pc[c] = "query"
            \* a failed call: error reply or receive_json, never the save
            /\ (pc[c] = "query" /\ pc'[c] \notin {"query", "save"}) =>
                  /\ pc'[c] \in {"errreply", "recv"}
                  /\ chats_collection' = chats_collection
            /\ pc[c] = "errreply" => chats_collection' = chats_collection
            \* a frame without a message
            /\ (\E rcv \in ChatIdInputs, msg \in {None, ""} :
                    ReceiveFrame(c, msg, rcv)) =>
                  /\ pc'[c] \in {"recv", "finalerr", "closed"}
                  /\ chats_collection' = chats_collection
            \* leaving the save, stored or not: the success reply is next,
            \* the registry is as it was
            /\ (pc[c] = "save" /\ pc'[c] # "save") =>
                  /\ pc'[c] = IF is_websocket_open(c) THEN "reply" ELSE "recv"
                  /\ registry' = registry
                  /\ Bound(c)'
                  /\ pc'[c] = "reply" =>
                        PendingFrame(c)' = ResponseFrame(Meta(c).chat_id)
            \* the reply is written after the save, the collection as it is
            /\ (pc[c] = "reply" /\ sent'[c] # sent[c]) =>
                  /\ sent'[c] = Append(sent[c], ResponseFrame(Meta(c).chat_id))
                  /\ ~ResponseFrame(Meta(c).chat_id).error
                  /\ chats_collection' = chats_collection
                  /\ pc'[c] = "recv" /\ Bound(c)'
          ]_vars

\* C25 witness: the document of the message is in the collection and its
\* reply is not yet sent.
TranscriptOnSuccessBeforeReply_Witness ==
    \E c \in Conns :
        /\ pc[c] = "reply"
        /\ Len(chats_collection) = 1
        /\ ChatDocument(c, chats_collection[1])
        /\ chats_collection[1].user_message = "hello"
        /\ sent[c] = <<WelcomeFrame(chat_id[c])>>

\* a failure of the store went unnoticed: the success reply was delivered,
\* no document was stored and the connection waits for the next frame
StoreFailureSwallowed_Witness ==
    \E c \in Conns :
        /\ pc[c] = "recv" /\ Bound(c)
        /\ chats_collection = << >>
        /\ sent[c] = <<WelcomeFrame(chat_id[c]), ResponseFrame(chat_id[c])>>

\* the forward entries under the key user
ForwardOf(user) == DictGet(active_connections, user, EmptyDict)

\* C26 (cross-user isolation): the user of a handler is set once, by the
\* handshake, and is the user of its reverse entry for as long as it has
\* one; a step of a connection of user u leaves the forward entries under
\* every other key, and the reverse entries of the connections of every
\* other user, as they were, whatever chat id the frame names.
CrossUserIsolation ==
    /\ [](\A c \in Conns :
            Bound(c) => (Handshaken(c) /\ Meta(c).user_id = user_id[c]))
    /\ [][ \A c \in Conns :
            /\ Handshaken(c) => user_id'[c] = user_id[c]
            /\ (Bound(c) /\ Bound(c)') => Meta(c)'.user_id = Meta(c).user_id
            /\ ActsIn(c) =>
                  /\ \A u \in Users \ {user_id'[c]} :
                        /\ (u \in DOMAIN active_connections')
                              = (u \in DOMAIN active_connections)
                        /\ ForwardOf(u)' = ForwardOf(u)
                  /\ \A d \in Conns \ {c} :
                        (Bound(d) /\ Meta(d).user_id # user_id'[c]) =>
                            (Bound(d)' /\ Meta(d)' = Meta(d))
          ]_vars

\* C26 witness: a connection of one user that was on the chat c1 has been
\* torn down, and the connection of the other user is still bound to its
\* own chat c1.
CrossUserIsolation_Witness ==
    \E c \in Conns, d \in Conns :
        /\ c # d
        /\ Handshaken(c) /\ Handshaken(d) /\ user_id[c] # user_id[d]
        /\ pc[c] = "closed" /\ ~Bound(c) /\ chat_id[c] = "c1"
        /\ user_id[c] \notin DOMAIN active_connections
        /\ Bound(d) /\ Meta(d).chat_id = "c1"
        /\ PointsTo(user_id[d], "c1", d)

\* the chat ids of the allocator's making that the registry holds
AllocatedInRegistry ==
    (UNION {DOMAIN active_connections[u] : u \in DOMAIN active_connections}
        \cup {connection_metadata[w].chat_id : w \in DOMAIN connection_metadata})
    \cap AllocatedIds

\* C27 ("new" in the loop): a steady-state frame whose chatId is "new"
\* allocates nothing and leaves the connection bound to the chat id "new"
\* itself: local chat id and reverse entry name "new", the forward entry
\* (user, "new") is the connection's when the frame made it switch, and a
\* connection of the same user that was on "new" already stays on the same
\* pair, so that both reverse entries name (user, "new").
NewInLoopIsLiteral ==
    [][ \A c \in Conns :
          (\E msg \in MessageInputs : ReceiveFrame(c, msg, "new")) =>
              /\ chat_id'[c] = "new"
              /\ Bound(c)'
              /\ Meta(c)' = [user_id |-> user_id[c], chat_id |-> "new"]
              /\ chat_id[c] # "new" => PointsTo(user_id[c], "new", c)'
              /\ AllocatedInRegistry' \subseteq AllocatedInRegistry
              /\ \A d \in Conns \ {c} :
                    (Bound(d) /\ Meta(d) = [user_id |-> user_id[c],
                                            chat_id |-> "new"]) =>
                        (Bound(d)' /\ Meta(d)' = Meta(c)')
      ]_vars

\* C27 witness: two connections of one user, each having sent chatId
\* "new" in the loop, share the pair (user, "new"), whose forward entry is
\* one of the two.
NewInLoopIsLiteral_Witness ==
    \E c \in Conns, d \in Conns :
        /\ c # d
        /\ Bound(c) /\ Bound(d)
        /\ Meta(c) = Meta(d)
        /\ Meta(c).chat_id = "new"
        /\ chat_id[c] = "new" /\ chat_id[d] = "new"
        /\ PointsTo(Meta(c).user_id, "new", d)
        /\ pc[c] = "query" /\ pc[d] = "query"

====
